---- MODULE Spec2Model ----
(***************************************************************************)
(* A model of src/ai_messaging_bot.py: the Telegram group assistant that   *)
(* archives important messages, answers FAQs from the knowledge table and  *)
(* schedules one-shot reminders.                                           *)
(*                                                                         *)
(* Text is a sequence of one-character strings, so that lower(), strip(),  *)
(* split("|"), the keyword regular expressions and strptime are computed   *)
(* character by character as the Python and SQLite code computes them.     *)
(* The three SQLite tables are sequences of rows in rowid (insertion)      *)
(* order.  Every handler returns before the next update is dispatched      *)
(* (python-telegram-bot awaits each handler in turn), but a handler gives  *)
(* way to the event loop at each await: the tasks made by                  *)
(* asyncio.create_task run between handlers and while one is suspended, so *)
(* a handler is one action per stretch of code between two awaits.         *)
(***************************************************************************)
EXTENDS Integers, Sequences, FiniteSets, TLC

(***************************************************************************)
(* Bounds of the model.                                                    *)
(***************************************************************************)
\* inbound updates (messages and commands) handled in one behaviour
MaxUpdates == 3
\* /setreminder commands handled in one behaviour of the reminder specifications
MaxReminderCmds == 2
\* clock ticks (of half a minute) that pass in one behaviour
MaxTicks == 2
MaxSents == 3
MaxInflight == 2
MaxBoots == 2

(***************************************************************************)
(* Characters and Python / SQLite string functions.                        *)
(***************************************************************************)
UpperChars == <<"A","B","C","D","E","F","G","H","I","J","K","L","M",
                "N","O","P","Q","R","S","T","U","V","W","X","Y","Z">>
LowerChars == <<"a","b","c","d","e","f","g","h","i","j","k","l","m",
                "n","o","p","q","r","s","t","u","v","w","x","y","z">>
DigitChars == <<"0","1","2","3","4","5","6","7","8","9">>

\* the one non-ASCII letter pair of the model: U+00C9 and U+00E9
UpperEacute == "E_ACUTE"
LowerEacute == "e_acute"

\* the character classes, and the letter and digit tables as functions
UpperSet == {UpperChars[i] : i \in 1..26}
LowerSet == {LowerChars[i] : i \in 1..26}
DigitSet == {DigitChars[i] : i \in 1..10}
LowerOfUpper == [c \in UpperSet |-> LowerChars[CHOOSE i \in 1..26 : UpperChars[i] = c]]
ValueOfDigit == [c \in DigitSet |-> (CHOOSE i \in 1..10 : DigitChars[i] = c) - 1]

IsUpper(c) == c \in UpperSet
IsAsciiLetter(c) == c \in UpperSet \/ c \in LowerSet
IsDigit(c) == c \in DigitSet
DigitVal(c) == ValueOfDigit[c]
IsSpace(c) == c = " "

\* ASCII-only lowering of one character
AsciiLowerChar(c) == IF IsUpper(c) THEN LowerOfUpper[c] ELSE c

\* str.lower() of Python: Unicode-aware
PyLower(s) ==
    [i \in 1..Len(s) |-> IF s[i] = UpperEacute THEN LowerEacute ELSE AsciiLowerChar(s[i])]

\* LOWER() of SQLite: lowers the ASCII letters only
SqlLower(s) == [i \in 1..Len(s) |-> AsciiLowerChar(s[i])]

\* str.strip(): leading and trailing whitespace removed
RECURSIVE LStrip(_)
LStrip(s) == IF s # <<>> /\ IsSpace(Head(s)) THEN LStrip(Tail(s)) ELSE s
RECURSIVE RStrip(_)
RStrip(s) ==
    IF s # <<>> /\ IsSpace(s[Len(s)]) THEN RStrip(SubSeq(s, 1, Len(s) - 1)) ELSE s
Strip(s) == LStrip(RStrip(s))

\* str.split("|"): the pieces between the bars, empty pieces kept
RECURSIVE SplitBar(_)
SplitBar(s) ==
    IF \A i \in 1..Len(s) : s[i] # "|"
    THEN <<s>>
    ELSE LET i == CHOOSE k \in 1..Len(s) :
                      s[k] = "|" /\ \A j \in 1..(k - 1) : s[j] # "|"
         IN  <<SubSeq(s, 1, i - 1)>> \o SplitBar(SubSeq(s, i + 1, Len(s)))

\* the `in` operator of Python on strings: sub occurs in s
Contains(s, sub) ==
    \E i \in 1..(Len(s) - Len(sub) + 1) : SubSeq(s, i, i + Len(sub) - 1) = sub

(***************************************************************************)
(* IMPORTANT_KEYWORDS: two patterns, each \b(w1|w2|...)\b.                 *)
(***************************************************************************)
KeywordPattern1 ==
    <<<<"a","n","n","o","u","n","c","e","m","e","n","t">>,
      <<"e","v","e","n","t">>,
      <<"r","e","m","i","n","d","e","r">>,
      <<"u","r","g","e","n","t">>,
      <<"c","r","i","t","i","c","a","l">>,
      <<"d","e","a","d","l","i","n","e">>>>
KeywordPattern2 ==
    <<<<"d","a","t","e">>,
      <<"t","i","m","e">>,
      <<"l","o","c","a","t","i","o","n">>,
      <<"s","c","h","e","d","u","l","e">>>>
IMPORTANT_KEYWORDS == <<KeywordPattern1, KeywordPattern2>>

\* \w of Python's re on str: letters, digits and the underscore
IsWordChar(c) ==
    IsAsciiLetter(c) \/ IsDigit(c) \/ c = "_" \/ c = UpperEacute \/ c = LowerEacute

\* the alternative kw of a pattern \b(...)\b matches s at position i
WordMatchAt(s, i, kw) ==
    /\ i + Len(kw) - 1 <= Len(s)
    /\ SubSeq(s, i, i + Len(kw) - 1) = kw
    /\ (i = 1 \/ ~IsWordChar(s[i - 1]))
    /\ (i + Len(kw) - 1 = Len(s) \/ ~IsWordChar(s[i + Len(kw)]))

\* re.search(pattern, s) finds a match
ReSearch(pattern, s) ==
    \E k \in 1..Len(pattern) : \E i \in 1..Len(s) : WordMatchAt(s, i, pattern[k])

(***************************************************************************)
(* datetime.strptime(time_str, "%Y-%m-%d %H:%M") and the clock.  Time is   *)
(* counted in ticks of half a minute since 2000-01-01 00:00, so that the   *)
(* clock can stand on a minute boundary or strictly between two.           *)
(***************************************************************************)
TicksPerMinute == 2

\* the number of digits at s[i..], at most max (the directive takes all it can)
DigitRun(s, i, max) ==
    CHOOSE n \in 0..max :
        /\ \A k \in 0..(n - 1) : i + k <= Len(s) /\ IsDigit(s[i + k])
        /\ (n = max \/ i + n > Len(s) \/ ~IsDigit(s[i + n]))

\* the whitespace at s[i..]: the blank of the format matches \s+
SpaceRun(s, i) ==
    CHOOSE n \in 0..Len(s) :
        /\ \A k \in 0..(n - 1) : i + k <= Len(s) /\ IsSpace(s[i + k])
        /\ (i + n > Len(s) \/ ~IsSpace(s[i + n]))

RECURSIVE NumAt(_, _, _)
NumAt(s, i, n) ==
    IF n = 0 THEN 0 ELSE NumAt(s, i, n - 1) * 10 + DigitVal(s[i + n - 1])

IsLeap(y) == y % 4 = 0 /\ (y % 100 # 0 \/ y % 400 = 0)
DaysInMonth(y, m) ==
    IF m = 2 THEN (IF IsLeap(y) THEN 29 ELSE 28)
    ELSE IF m \in {4, 6, 9, 11} THEN 30 ELSE 31
\* datetime._ymd2ord: the ordinal of a day, 0001-01-01 being day 1
DaysBeforeYear(y) ==
    (y - 1) * 365 + (y - 1) \div 4 - (y - 1) \div 100 + (y - 1) \div 400
RECURSIVE DaysBeforeMonth(_, _)
DaysBeforeMonth(y, m) ==
    IF m = 1 THEN 0 ELSE DaysBeforeMonth(y, m - 1) + DaysInMonth(y, m - 1)
Ymd2Ord(y, m, d) == DaysBeforeYear(y) + DaysBeforeMonth(y, m) + d

\* a datetime as ticks since 2000-01-01 00:00
ToTicks(y, m, d, hh, mm) ==
    (((Ymd2Ord(y, m, d) - Ymd2Ord(2000, 1, 1)) * 24 + hh) * 60 + mm) * TicksPerMinute

ParseFailed == [ok |-> FALSE, ticks |-> 0]

\* strptime: [ok |-> FALSE] stands for its ValueError
Strptime(s) ==
    LET yN == DigitRun(s, 1, 4)
        mI == 6
        mN == DigitRun(s, mI, 2)
        dI == mI + mN + 1
        \* %d also takes a blank followed by one digit 1..9
        dBlank == /\ dI + 1 <= Len(s) /\ s[dI] = " "
                  /\ IsDigit(s[dI + 1]) /\ s[dI + 1] # "0"
        dN == IF dBlank THEN 2 ELSE DigitRun(s, dI, 2)
        wI == dI + dN
        wN == SpaceRun(s, wI)
        hI == wI + wN
        hN == DigitRun(s, hI, 2)
        nI == hI + hN + 1
        nN == DigitRun(s, nI, 2)
    IN  IF /\ yN = 4 /\ mN >= 1 /\ dN >= 1 /\ wN >= 1 /\ hN >= 1 /\ nN >= 1
           /\ Len(s) = nI + nN - 1
           /\ s[5] = "-" /\ s[dI - 1] = "-" /\ s[nI - 1] = ":"
        THEN LET y == NumAt(s, 1, 4)
                 m == NumAt(s, mI, mN)
                 d == IF dBlank THEN DigitVal(s[dI + 1]) ELSE NumAt(s, dI, dN)
                 hh == NumAt(s, hI, hN)
                 mm == NumAt(s, nI, nN)
             IN  IF /\ y >= 1 /\ m \in 1..12 /\ hh \in 0..23 /\ mm \in 0..59
                    /\ d >= 1 /\ d <= DaysInMonth(y, m)
                 THEN [ok |-> TRUE, ticks |-> ToTicks(y, m, d, hh, mm)]
                 ELSE ParseFailed
        ELSE ParseFailed

(***************************************************************************)
(* The texts of the model: chat messages, command arguments, stored        *)
(* strings.                                                                *)
(***************************************************************************)
\* "Pending admin response"
PendingAnswer ==
    <<"P","e","n","d","i","n","g"," ","a","d","m","i","n"," ","r","e","s",
      "p","o","n","s","e">>
\* "?"
QuestionMark ==
    <<"?">>
\* "What is the venue?"
TxtVenueQ ==
    <<"W","h","a","t"," ","i","s"," ","t","h","e"," ","v","e","n","u","e",
      "?">>
\* "What is the venue"
TxtVenue ==
    <<"W","h","a","t"," ","i","s"," ","t","h","e"," ","v","e","n","u","e">>
\* "DEADLINE moved. Where? When?"
TxtDeadline ==
    <<"D","E","A","D","L","I","N","E"," ","m","o","v","e","d","."," ","W",
      "h","e","r","e","?"," ","W","h","e","n","?">>
\* "DEADLINE moved."
TxtDeadlineS1 ==
    <<"D","E","A","D","L","I","N","E"," ","m","o","v","e","d",".">>
\* "Where?"
TxtWhere ==
    <<"W","h","e","r","e","?">>
\* "When?"
TxtWhen ==
    <<"W","h","e","n","?">>
\* "ok"
TxtOk ==
    <<"o","k">>
\* "Update Bob sometimes"
TxtUpdate ==
    <<"U","p","d","a","t","e"," ","B","o","b"," ","s","o","m","e","t","i",
      "m","e","s">>
\* "see you friday"
TxtFriday ==
    <<"s","e","e"," ","y","o","u"," ","f","r","i","d","a","y">>
\* "Été?", with E_ACUTE and e_acute standing for its two accented letters
TxtEte ==
    <<"E_ACUTE","t","e_acute","?">>
\* "Été? | summer"
FaqEte ==
    <<"E_ACUTE","t","e_acute","?"," ","|"," ","s","u","m","m","e","r">>
\* "what is the venue | Building 5"
FaqVenue ==
    <<"w","h","a","t"," ","i","s"," ","t","h","e"," ","v","e","n","u","e",
      " ","|"," ","B","u","i","l","d","i","n","g"," ","5">>
\* "what is the venue |"
FaqVenueEmpty ==
    <<"w","h","a","t"," ","i","s"," ","t","h","e"," ","v","e","n","u","e",
      " ","|">>
\* "Where? | what is the venue"
FaqWhere ==
    <<"W","h","e","r","e","?"," ","|"," ","w","h","a","t"," ","i","s"," ",
      "t","h","e"," ","v","e","n","u","e">>
\* "what is the venue"
FaqNoBar ==
    <<"w","h","a","t"," ","i","s"," ","t","h","e"," ","v","e","n","u","e">>
\* "what is the venue"
TxtVenueLower ==
    <<"w","h","a","t"," ","i","s"," ","t","h","e"," ","v","e","n","u","e">>
\* "Building 5"
TxtBuilding5 ==
    <<"B","u","i","l","d","i","n","g"," ","5">>
\* "Where? | Where?"
FaqEcho ==
    <<"W","h","e","r","e","?"," ","|"," ","W","h","e","r","e","?">>
\* "team sync"
RemUsage ==
    <<"t","e","a","m"," ","s","y","n","c">>
\* "team sync | tomorrow"
RemTomorrow ==
    <<"t","e","a","m"," ","s","y","n","c"," ","|"," ","t","o","m","o","r",
      "r","o","w">>
\* "team sync | 2020-01-01 00:00"
RemPast ==
    <<"t","e","a","m"," ","s","y","n","c"," ","|"," ","2","0","2","0","-",
      "0","1","-","0","1"," ","0","0",":","0","0">>
\* "team sync | 2026-10-29 15:04"
RemNow ==
    <<"t","e","a","m"," ","s","y","n","c"," ","|"," ","2","0","2","6","-",
      "1","0","-","2","9"," ","1","5",":","0","4">>
\* "pay rent | 2026-10-29 15:05"
RemSoon ==
    <<"p","a","y"," ","r","e","n","t"," ","|"," ","2","0","2","6","-","1",
      "0","-","2","9"," ","1","5",":","0","5">>

(***************************************************************************)
(* Inputs.  A chat message comes with what the spaCy pipeline (external)   *)
(* makes of it: ents, the entity labels of nlp(text.lower()), and sents,   *)
(* the sentences of nlp(text), each with its text and its lemmas.          *)
(***************************************************************************)
GroupIds == {"42", "7"}

MsgVenueQ ==
    [text |-> TxtVenueQ, ents |-> {},
     sents |-> <<[text |-> TxtVenueQ, lemmas |-> {"what", "be", "the", "venue", "?"}]>>]
MsgVenue ==
    [text |-> TxtVenue, ents |-> {},
     sents |-> <<[text |-> TxtVenue, lemmas |-> {"what", "be", "the", "venue"}]>>]
MsgDeadline ==
    [text |-> TxtDeadline, ents |-> {},
     sents |-> <<[text |-> TxtDeadlineS1, lemmas |-> {"deadline", "move", "."}],
                 [text |-> TxtWhere, lemmas |-> {"where", "?"}],
                 [text |-> TxtWhen, lemmas |-> {"when", "?"}]>>]
MsgOk ==
    [text |-> TxtOk, ents |-> {},
     sents |-> <<[text |-> TxtOk, lemmas |-> {"ok"}]>>]
MsgUpdate ==
    [text |-> TxtUpdate, ents |-> {"PERSON"},
     sents |-> <<[text |-> TxtUpdate, lemmas |-> {"update", "bob", "sometimes"}]>>]
MsgFriday ==
    [text |-> TxtFriday, ents |-> {"DATE"},
     sents |-> <<[text |-> TxtFriday, lemmas |-> {"see", "you", "friday"}]>>]

MsgEte ==
    [text |-> TxtEte, ents |-> {},
     sents |-> <<[text |-> TxtEte, lemmas |-> {"ete", "?"}]>>]

Messages == {MsgVenueQ, MsgVenue, MsgDeadline, MsgOk, MsgUpdate, MsgFriday, MsgEte}
FaqLines == {FaqVenue, FaqVenueEmpty, FaqWhere, FaqNoBar, FaqEte}
ReminderLines == {RemUsage, RemTomorrow, RemPast, RemNow, RemSoon}

\* what the storage layer does during set_reminder: nothing wrong; "init",
\* sqlite3.Error raised by the connect of init_db, which AIMessagingBot() runs
\* at line 184 on every call; or, with init_db done, sqlite3.Error raised in
\* store_reminder by connect, by execute or by commit
StorageFaults == {"none", "init", "connect", "execute", "commit"}

\* the /setreminder commands of the model: each line with a working store, and
\* the line for the coming minute with each storage failure
ReminderInputs ==
    {<<line, "none">> : line \in ReminderLines}
    \cup {<<RemSoon, fault>> : fault \in StorageFaults}

\* sentences for a call of extract_question: no mark and no question word; a
\* mark and a question word; a question word only; a mark only; a statement;
\* a question after the blanks the text began with
SentOk == [text |-> TxtOk, lemmas |-> {"ok"}]
SentWhere == [text |-> TxtWhere, lemmas |-> {"where", "?"}]
SentVenue == [text |-> TxtVenue, lemmas |-> {"what", "be", "the", "venue"}]
SentEte == [text |-> TxtEte, lemmas |-> {"ete", "?"}]
SentDeadline == [text |-> TxtDeadlineS1, lemmas |-> {"deadline", "move", "."}]
SentWhenLed == [text |-> <<" ", " ">> \o TxtWhen, lemmas |-> {" ", "when", "?"}]
Sentences == {SentOk, SentWhere, SentVenue, SentEte, SentDeadline, SentWhenLed}
\* the documents of up to MaxSents sentences
Docs == UNION {[1..n -> Sentences] : n \in 0..MaxSents}

\* the wall clock when the bot starts: 2026-10-29 15:04:00
ClockStart == ToTicks(2026, 10, 29, 15, 4)

(***************************************************************************)
(* State.                                                                  *)
(***************************************************************************)
VARIABLES
    knowledge,            \* table knowledge: rows in rowid order
    important_messages,   \* table important_messages
    reminders,            \* table reminders
    group_context,        \* bot.group_context: group_id -> list of texts
    tasks,                \* the schedule_reminder tasks that are asleep
    outbox,               \* every reply sent so far, in order
    updates,              \* every update handled so far; its index is its message_id
    clock,                \* datetime.now(), in ticks
    inflight,             \* the handler coroutines suspended at an await
    boots,                \* how many times main() has started the process
    doc,                  \* the sentences nlp(text) gives a call of extract_question
    returned              \* what that call returned

\* what a handler that awaits nothing before its end leaves alone
rest == <<inflight, boots, doc, returned>>

vars == <<knowledge, important_messages, reminders, group_context, tasks,
          outbox, updates, clock, inflight, boots, doc, returned>>

\* Python's None, and a str value, as the result of a function returning either
None == [is_none |-> TRUE, str |-> <<>>]
Some(s) == [is_none |-> FALSE, str |-> s]
\* the truth value of `if x:` for x a str or None
Truthy(x) == ~x.is_none /\ x.str # <<>>
\* no call of extract_question has returned yet
NotCalled == [is_none |-> TRUE, str |-> <<"(", "n", "o", " ", "c", "a", "l", "l", ")">>]

(***************************************************************************)
(* class AIMessagingBot.                                                   *)
(***************************************************************************)
ENTITY_LABELS == {"DATE", "TIME", "EVENT"}
QUESTION_LEMMAS == {"what", "how", "when", "where", "why"}

\* mutant: the patterns are searched in the text as it came, not lowered
detect_relevance_NoLower(text, ents) ==
    \/ \E k \in 1..Len(IMPORTANT_KEYWORDS) : ReSearch(IMPORTANT_KEYWORDS[k], text)
    \/ \E label \in ents : label \in ENTITY_LABELS

detect_relevance(text, ents) ==
    \/ \E k \in 1..Len(IMPORTANT_KEYWORDS) : ReSearch(IMPORTANT_KEYWORDS[k], PyLower(text))
    \/ \E label \in ents : label \in ENTITY_LABELS

\* mutant: a content the group already has a row for is not stored again
store_important_message_Dedup(table, group_id, message_id, content) ==
    IF \E i \in 1..Len(table) : table[i].group_id = group_id /\ table[i].content = content
    THEN table
    ELSE Append(table, [group_id |-> group_id, message_id |-> message_id,
                        content |-> content])

store_important_message(table, group_id, message_id, content) ==
    Append(table, [group_id |-> group_id, message_id |-> message_id, content |-> content])

\* mutant: the SELECT without its group_id condition
FaqMatches_AnyGroup(table, group_id, question) ==
    {i \in 1..Len(table) : SqlLower(table[i].question) = PyLower(question)}

\* mutant: the SELECT with a prefix match, ? LIKE LOWER(question) || '%'
FaqMatches_Prefix(table, group_id, question) ==
    {i \in 1..Len(table) :
        /\ table[i].group_id = group_id
        /\ Len(table[i].question) <= Len(question)
        /\ SqlLower(table[i].question) =
               SubSeq(PyLower(question), 1, Len(table[i].question))}

\* the rows the SELECT of get_faq_answer matches
FaqMatches(table, group_id, question) ==
    {i \in 1..Len(table) :
        /\ table[i].group_id = group_id
        /\ SqlLower(table[i].question) = PyLower(question)}

\* mutant: the UPDATE without its group_id condition
FaqUpdate_AnyGroup(table, group_id, key, freq) ==
    [i \in 1..Len(table) |->
        IF table[i].question = key
        THEN [table[i] EXCEPT !.frequency = freq]
        ELSE table[i]]

\* the UPDATE of get_faq_answer: its WHERE compares the question column with
\* result[0], which is the answer column of the row fetched
FaqUpdate(table, group_id, key, freq) ==
    [i \in 1..Len(table) |->
        IF table[i].group_id = group_id /\ table[i].question = key
        THEN [table[i] EXCEPT !.frequency = freq]
        ELSE table[i]]

\* the value returned and the table afterwards
get_faq_answer(table, group_id, question) ==
    LET hits == FaqMatches(table, group_id, question)
    IN  IF hits # {}
        THEN LET first == CHOOSE i \in hits : \A j \in hits : i <= j
                 answer == table[first].answer
                 freq == table[first].frequency
             IN  [answer |-> Some(answer),
                  table |-> FaqUpdate(table, group_id, answer, freq + 1)]
        ELSE [answer |-> None, table |-> table]

\* mutant: a question the group already has a row for gets the new answer
\* in that row instead of a row of its own
store_faq_Upsert(table, group_id, question, answer) ==
    IF \E i \in 1..Len(table) : table[i].group_id = group_id /\ table[i].question = question
    THEN [i \in 1..Len(table) |->
             IF table[i].group_id = group_id /\ table[i].question = question
             THEN [table[i] EXCEPT !.answer = answer]
             ELSE table[i]]
    ELSE Append(table, [group_id |-> group_id, question |-> question,
                        answer |-> answer, frequency |-> 1])

store_faq(table, group_id, question, answer) ==
    Append(table, [group_id |-> group_id, question |-> question,
                   answer |-> answer, frequency |-> 1])

\* the sentence of extract_question qualifies
IsQuestionSentence(sent) ==
    Contains(sent.text, QuestionMark) \/ \E l \in sent.lemmas : l \in QUESTION_LEMMAS

\* mutant: the loop keeps going and the last qualifying sentence is returned
extract_question_Last(sents) ==
    IF \E i \in 1..Len(sents) : IsQuestionSentence(sents[i])
    THEN LET last == CHOOSE i \in 1..Len(sents) :
                         /\ IsQuestionSentence(sents[i])
                         /\ \A j \in (i + 1)..Len(sents) : ~IsQuestionSentence(sents[j])
         IN  Some(Strip(sents[last].text))
    ELSE None

extract_question(sents) ==
    IF \E i \in 1..Len(sents) : IsQuestionSentence(sents[i])
    THEN LET first == CHOOSE i \in 1..Len(sents) :
                          /\ IsQuestionSentence(sents[i])
                          /\ \A j \in 1..(i - 1) : ~IsQuestionSentence(sents[j])
         IN  Some(Strip(sents[first].text))
    ELSE None

\* detect_relevance and extract_question of each message of the model
Relevance == [m \in Messages |-> detect_relevance(m.text, m.ents)]
Question == [m \in Messages |-> extract_question(m.sents)]

\* the table afterwards, and whether the call raised: a failing connect leaves
\* conn unbound, so conn.close() in the finally clause raises UnboundLocalError
store_reminder(table, group_id, message_id, content, remind_time, fault) ==
    IF fault = "none"
    THEN [table |-> Append(table, [group_id |-> group_id, message_id |-> message_id,
                                   content |-> content, remind_time |-> remind_time]),
          raised |-> FALSE]
    ELSE [table |-> table, raised |-> (fault = "connect")]

(***************************************************************************)
(* Handlers.  A reply is [chat, reply_to, kind, body]: kind names the      *)
(* fixed wording of the reply and body is the text put into it.            *)
(***************************************************************************)
ContextCap == 100

Reply(chat, reply_to, kind, body) ==
    [chat |-> chat, reply_to |-> reply_to, kind |-> kind, body |-> body]

\* an update handled: the chat it came from, the handler it went to, its text
\* or command arguments, the clock when it was handled and what the storage
\* layer did during store_reminder
Update(chat, cmd, arg, fault) ==
    [chat |-> chat, cmd |-> cmd, arg |-> arg, at |-> clock, fault |-> fault]

\* the message_id of the update being handled
NextMessageId == Len(updates) + 1

\* the updates handled since ClockStart, the moment the model starts to look;
\* the ones handled before it, when there are any, come first in the log
Handled ==
    IF updates = <<>> \/ updates[1].at >= ClockStart
    THEN Len(updates)
    ELSE Cardinality({i \in 1..Len(updates) : updates[i].at >= ClockStart})

\* mutant: pop() instead of pop(0), the newest entry goes
AppendContext_PopsNewest(context, text) ==
    LET longer == Append(context, text)
    IN  IF Len(longer) > ContextCap THEN SubSeq(longer, 1, ContextCap) ELSE longer

\* bot.group_context[group_id].append(text), and pop(0) beyond the cap
AppendContext(context, text) ==
    LET longer == Append(context, text)
    IN  IF Len(longer) > ContextCap THEN Tail(longer) ELSE longer

\* async def start
Start(g) ==
    /\ Handled < MaxUpdates
    /\ outbox' = Append(outbox, Reply(g, NextMessageId, "start", <<>>))
    /\ updates' = Append(updates, Update(g, "start", <<>>, "none"))
    /\ UNCHANGED <<knowledge, important_messages, reminders, group_context, tasks, clock>>
    /\ UNCHANGED rest

\* async def add_faq
AddFaq(g, line) ==
    LET id == NextMessageId
        parts == SplitBar(line)
    IN  /\ Handled < MaxUpdates
        /\ IF Len(parts) = 2
           THEN /\ knowledge' = store_faq(knowledge, g, Strip(parts[1]), Strip(parts[2]))
                /\ outbox' = Append(outbox, Reply(g, id, "faq_added",
                                  parts[1] \o <<" ", "-", ">", " ">> \o parts[2]))
           ELSE /\ knowledge' = knowledge
                /\ outbox' = Append(outbox, Reply(g, id, "faq_usage", <<>>))
        /\ updates' = Append(updates, Update(g, "addfaq", line, "none"))
        /\ UNCHANGED <<important_messages, reminders, group_context, tasks, clock>>
        /\ UNCHANGED rest

(***************************************************************************)
(* Coroutines.  A handler runs until it awaits a send; there it returns to *)
(* the event loop, which runs whatever else is ready (a reminder task      *)
(* whose sleep is over) and resumes the handler when the send is done.  A  *)
(* reply is in outbox from the moment its send begins.  Where the await is *)
(* the last thing a handler does (start, add_faq, the rejections of        *)
(* set_reminder, schedule_reminder after its sleep) nothing is left to do  *)
(* on resumption and the handler is one step.  handle_message awaits after *)
(* the important reply (line 154), after the auto-answer (line 160) and    *)
(* after the clarification request (line 163), which comes before the      *)
(* pending row is stored (line 164); set_reminder awaits after the         *)
(* acknowledgement (line 198), before it makes the task.  get_faq_answer   *)
(* has no await in it.  A coroutine is [chat, id, msg, pc]: msg is the     *)
(* message (for set_reminder, the arguments), pc is "start" before the     *)
(* first line, the line of the await it is suspended at, or "done"; that   *)
(* of set_reminder has its locals content and remind_time as well.         *)
(***************************************************************************)
Coroutine(g, id, m) == [chat |-> g, id |-> id, msg |-> m, pc |-> "start"]

\* lines 156-163: from extract_question to the next await, or to the end
FromLine156(h, kn, im, out) ==
    LET question == Question[h.msg]
        looked == get_faq_answer(kn, h.chat, question.str)
    IN  IF ~Truthy(question)
        THEN [knowledge |-> kn, important_messages |-> im, outbox |-> out,
              next |-> [h EXCEPT !.pc = "done"]]
        ELSE IF Truthy(looked.answer)
        THEN [knowledge |-> looked.table, important_messages |-> im,
              outbox |-> Append(out, Reply(h.chat, h.id, "auto_answer", looked.answer.str)),
              next |-> [h EXCEPT !.pc = "line160"]]
        ELSE [knowledge |-> looked.table, important_messages |-> im,
              outbox |-> Append(out, Reply(h.chat, h.id, "clarify", question.str)),
              next |-> [h EXCEPT !.pc = "line163"]]

\* mutant: get_faq_answer is suspended between its SELECT and its UPDATE, as
\* if each storage call were awaited; the row fetched waits in the coroutine
Advance_SuspendedLookup(h, kn, im, out) ==
    LET question == Question[h.msg]
        hits == FaqMatches(kn, h.chat, question.str)
        first == CHOOSE i \in hits : \A j \in hits : i <= j
        select ==
            IF ~Truthy(question)
            THEN [knowledge |-> kn, important_messages |-> im, outbox |-> out,
                  next |-> [h EXCEPT !.pc = "done"]]
            ELSE IF hits # {}
            THEN [knowledge |-> kn, important_messages |-> im, outbox |-> out,
                  next |-> [chat |-> h.chat, id |-> h.id, msg |-> h.msg, pc |-> "line88",
                            answer |-> kn[first].answer, freq |-> kn[first].frequency]]
            ELSE [knowledge |-> kn, important_messages |-> im,
                  outbox |-> Append(out, Reply(h.chat, h.id, "clarify", question.str)),
                  next |-> [h EXCEPT !.pc = "line163"]]
    IN  IF h.pc = "start" /\ Relevance[h.msg]
        THEN [knowledge |-> kn,
              important_messages |-> store_important_message(im, h.chat, h.id, h.msg.text),
              outbox |-> Append(out, Reply(h.chat, h.id, "important", h.msg.text)),
              next |-> [h EXCEPT !.pc = "line154"]]
        ELSE IF h.pc \in {"start", "line154"}
        THEN select
        ELSE IF h.pc = "line88"
        THEN IF h.answer # <<>>
             THEN [knowledge |-> FaqUpdate(kn, h.chat, h.answer, h.freq + 1),
                   important_messages |-> im,
                   outbox |-> Append(out, Reply(h.chat, h.id, "auto_answer", h.answer)),
                   next |-> [Coroutine(h.chat, h.id, h.msg) EXCEPT !.pc = "line160"]]
             ELSE [knowledge |-> FaqUpdate(kn, h.chat, h.answer, h.freq + 1),
                   important_messages |-> im,
                   outbox |-> Append(out, Reply(h.chat, h.id, "clarify", question.str)),
                   next |-> [Coroutine(h.chat, h.id, h.msg) EXCEPT !.pc = "line163"]]
        ELSE IF h.pc = "line163"
        THEN [knowledge |-> store_faq(kn, h.chat, question.str, PendingAnswer),
              important_messages |-> im, outbox |-> out,
              next |-> [h EXCEPT !.pc = "done"]]
        ELSE [knowledge |-> kn, important_messages |-> im, outbox |-> out,
              next |-> [h EXCEPT !.pc = "done"]]

\* coroutine h runs from where it is to its next await, or to the end: the
\* tables and the replies afterwards, and the coroutine with its new pc
Advance(h, kn, im, out) ==
    IF h.pc = "start" /\ Relevance[h.msg]
    THEN [knowledge |-> kn,
          important_messages |-> store_important_message(im, h.chat, h.id, h.msg.text),
          outbox |-> Append(out, Reply(h.chat, h.id, "important", h.msg.text)),
          next |-> [h EXCEPT !.pc = "line154"]]
    ELSE IF h.pc \in {"start", "line154"}
    THEN FromLine156(h, kn, im, out)
    ELSE IF h.pc = "line163"
    THEN [knowledge |-> store_faq(kn, h.chat, Question[h.msg].str, PendingAnswer),
          important_messages |-> im, outbox |-> out,
          next |-> [h EXCEPT !.pc = "done"]]
    ELSE [knowledge |-> kn, important_messages |-> im, outbox |-> out,
          next |-> [h EXCEPT !.pc = "done"]]

\* async def handle_message, from the arrival of the update to its first
\* await, or to its end when it awaits nothing
HandleMessage(g, m) ==
    LET h == Coroutine(g, NextMessageId, m)
        after == Advance(h, knowledge, important_messages, outbox)
    IN  /\ Handled < MaxUpdates
        /\ knowledge' = after.knowledge
        /\ important_messages' = after.important_messages
        /\ outbox' = after.outbox
        /\ IF after.next.pc = "done"
           THEN /\ inflight' = inflight
                /\ group_context' =
                       [group_context EXCEPT ![g] = AppendContext(group_context[g], m.text)]
           ELSE /\ inflight' = inflight \cup {after.next}
                /\ group_context' = group_context
        /\ updates' = Append(updates, Update(g, "text", m.text, "none"))
        /\ UNCHANGED <<reminders, tasks, clock, boots, doc, returned>>

\* with concurrent updates: a text message arrives and its handle_message
\* coroutine is created, to be run by the event loop
Arrive(g, m) ==
    /\ Handled < MaxUpdates
    /\ Cardinality(inflight) < MaxInflight
    /\ inflight' = inflight \cup {Coroutine(g, NextMessageId, m)}
    /\ updates' = Append(updates, Update(g, "text", m.text, "none"))
    /\ UNCHANGED <<knowledge, important_messages, reminders, group_context, tasks,
                   outbox, clock, boots, doc, returned>>

\* the event loop runs the handle_message coroutine h up to its next await; at
\* its end the text goes to the context of its group (lines 166-168)
Run(h) ==
    LET after == Advance(h, knowledge, important_messages, outbox)
    IN  /\ h \in inflight
        /\ h.pc # "line198"
        /\ knowledge' = after.knowledge
        /\ important_messages' = after.important_messages
        /\ outbox' = after.outbox
        /\ IF after.next.pc = "done"
           THEN /\ inflight' = inflight \ {h}
                /\ group_context' =
                       [group_context EXCEPT ![h.chat] = AppendContext(group_context[h.chat], h.msg.text)]
           ELSE /\ inflight' = (inflight \ {h}) \cup {after.next}
                /\ group_context' = group_context
        /\ UNCHANGED <<reminders, tasks, updates, clock, boots, doc, returned>>

\* mutant: the comparison with now the wrong way round
ReminderCheck_Reversed(line, now) ==
    LET args == SplitBar(line)
    IN  IF Len(args) # 2 THEN "usage"
        ELSE LET parsed == Strptime(Strip(args[2]))
             IN  IF ~parsed.ok THEN "format"
                 ELSE IF parsed.ticks > now THEN "past"
                 ELSE "store"

\* mutant: a time string that does not parse is taken for the time 0
ReminderCheck_NoFormat(line, now) ==
    LET args == SplitBar(line)
    IN  IF Len(args) # 2 THEN "usage"
        ELSE LET parsed == Strptime(Strip(args[2]))
             IN  IF parsed.ok /\ parsed.ticks < now THEN "past"
                 ELSE "store"

\* what set_reminder decides for the arguments line at the time now:
\* "usage", "format", "past", or "store" when it goes on to store_reminder
ReminderCheck(line, now) ==
    LET args == SplitBar(line)
    IN  IF Len(args) # 2 THEN "usage"
        ELSE LET parsed == Strptime(Strip(args[2]))
             IN  IF ~parsed.ok THEN "format"
                 ELSE IF parsed.ticks < now THEN "past"
                 ELSE "store"

\* mutant: the task is made with no delay
ReminderTask_NoDelay(g, id, content, remind_time, now) ==
    [chat |-> g, reply_to |-> id, content |-> content, wake |-> now]

\* the task asyncio.create_task(schedule_reminder(update, content, delay)) makes:
\* asyncio.sleep(delay) ends delay after now, and at once when delay <= 0
ReminderTask(g, id, content, remind_time, now) ==
    LET delay == remind_time - now
    IN  [chat |-> g, reply_to |-> id, content |-> content,
         wake |-> now + (IF delay > 0 THEN delay ELSE 0)]

\* async def set_reminder, from the arrival of the update to the await of the
\* acknowledgement (line 198), or to its end when it returns before.  With
\* fault "init" the exception of line 184 leaves the handler: no reply
SetReminder(g, line, fault) ==
    LET id == NextMessageId
        check == ReminderCheck(line, clock)
        args == SplitBar(line)
        content == Strip(args[1])
        time_str == Strip(args[2])
        remind_time == Strptime(time_str).ticks
        stored == store_reminder(reminders, g, id, content, remind_time, fault)
    IN  /\ Handled < MaxUpdates
        /\ (fault \in {"connect", "execute", "commit"} => check = "store")
        /\ IF fault = "init"
           THEN UNCHANGED <<outbox, reminders, inflight>>
           ELSE IF check # "store"
           THEN /\ outbox' = Append(outbox, Reply(g, id, check, <<>>))
                /\ UNCHANGED <<reminders, inflight>>
           ELSE /\ reminders' = stored.table
                /\ IF stored.raised
                   THEN /\ outbox' = Append(outbox, Reply(g, id, "failed", <<>>))
                        /\ inflight' = inflight
                   ELSE /\ outbox' = Append(outbox, Reply(g, id, "reminder_set",
                                          content \o <<" ", "a", "t", " ">> \o time_str))
                        /\ inflight' = inflight \cup
                               {[chat |-> g, id |-> id, msg |-> line, pc |-> "line198",
                                 content |-> content, remind_time |-> remind_time]}
        /\ updates' = Append(updates, Update(g, "setreminder", line, fault))
        /\ UNCHANGED <<knowledge, important_messages, group_context, tasks, clock,
                       boots, doc, returned>>

\* set_reminder resumed after the await of line 198: the clock is read again
\* (line 200) and the task is made (line 201)
ResumeReminder(h) ==
    /\ h \in inflight
    /\ h.pc = "line198"
    /\ tasks' = tasks \cup {ReminderTask(h.chat, h.id, h.content, h.remind_time, clock)}
    /\ inflight' = inflight \ {h}
    /\ UNCHANGED <<knowledge, important_messages, reminders, group_context, outbox,
                   updates, clock, boots, doc, returned>>

\* mutant: the task sends its notification and stays scheduled
ScheduleReminder_KeepsTask(t) ==
    /\ t \in tasks
    /\ clock >= t.wake
    /\ outbox' = Append(outbox, Reply(t.chat, t.reply_to, "reminder", t.content))
    /\ UNCHANGED <<knowledge, important_messages, reminders, group_context, tasks,
                   updates, clock>>
    /\ UNCHANGED rest

\* async def schedule_reminder, once its sleep is over
ScheduleReminder(t) ==
    /\ t \in tasks
    /\ clock >= t.wake
    /\ outbox' = Append(outbox, Reply(t.chat, t.reply_to, "reminder", t.content))
    /\ tasks' = tasks \ {t}
    /\ UNCHANGED <<knowledge, important_messages, reminders, group_context, updates, clock>>
    /\ UNCHANGED rest

\* mutant: on startup a task is made for every row of table reminders
Restart_Reschedules ==
    /\ boots < MaxBoots
    /\ boots' = boots + 1
    /\ tasks' = {[chat |-> reminders[i].group_id, reply_to |-> reminders[i].message_id,
                  content |-> reminders[i].content,
                  wake |-> IF reminders[i].remind_time > clock
                           THEN reminders[i].remind_time ELSE clock] :
                     i \in 1..Len(reminders)}
    /\ inflight' = {}
    /\ group_context' = [g \in GroupIds |-> <<>>]
    /\ UNCHANGED <<knowledge, important_messages, reminders, outbox, updates, clock,
                   doc, returned>>

\* the process stops and main() runs again: the asyncio tasks and coroutines
\* are gone with the event loop, bot_data["bot"] is a new AIMessagingBot with
\* an empty group_context, and init_db finds the tables as they were
Restart ==
    /\ boots < MaxBoots
    /\ boots' = boots + 1
    /\ tasks' = {}
    /\ inflight' = {}
    /\ group_context' = [g \in GroupIds |-> <<>>]
    /\ UNCHANGED <<knowledge, important_messages, reminders, outbox, updates, clock,
                   doc, returned>>

\* time passes
Tick ==
    /\ clock < ClockStart + MaxTicks
    /\ clock' = clock + 1
    /\ UNCHANGED <<knowledge, important_messages, reminders, group_context, tasks,
                   outbox, updates>>
    /\ UNCHANGED rest

(***************************************************************************)
(* Specifications.                                                         *)
(***************************************************************************)
\* AIMessagingBot.__init__ and init_db on an empty database
Init ==
    /\ knowledge = <<>>
    /\ important_messages = <<>>
    /\ reminders = <<>>
    /\ group_context = [g \in GroupIds |-> <<>>]
    /\ tasks = {}
    /\ outbox = <<>>
    /\ updates = <<>>
    /\ clock = ClockStart
    /\ inflight = {}
    /\ boots = 1
    /\ doc = <<>>
    /\ returned = NotCalled

\* Application.builder() as called at line 217 handles updates one at a time:
\* the handler of the next update starts when no handler is suspended
Idle == inflight = {}

\* a suspended handler is resumed
Resume == \E h \in inflight : Run(h)
ResumeSetReminder == \E h \in inflight : ResumeReminder(h)

\* the FAQ path: chat messages and /addfaq
NextFaq ==
    \/ (Idle /\ \E g \in GroupIds : \E m \in Messages : HandleMessage(g, m))
    \/ (Idle /\ \E g \in GroupIds : \E line \in FaqLines : AddFaq(g, line))
    \/ Resume

\* a /setreminder command arrives
ReminderCmd ==
    /\ Idle
    /\ \E g \in GroupIds : \E in \in ReminderInputs : SetReminder(g, in[1], in[2])

\* a task whose sleep is over runs
Wake == \E t \in tasks : ScheduleReminder(t)

\* the reminder path: /setreminder, the clock and the sleeping tasks
NextReminder ==
    \/ (Len(updates) < MaxReminderCmds /\ ReminderCmd)
    \/ ResumeSetReminder
    \/ Tick
    \/ Wake

Next ==
    \/ (Idle /\ \E g \in GroupIds : Start(g))
    \/ NextFaq
    \/ ReminderCmd
    \/ ResumeSetReminder
    \/ Tick
    \/ Wake
    \/ Restart

\* every handler, on a few inputs, in two groups: a question with no keyword, a
\* keyword and two questions, a date and no question; two FAQs, the answer of
\* one being the question of the other; a reminder that is due at once
StoreMessages == {MsgVenue, MsgDeadline, MsgFriday}
StoreFaqLines == {FaqVenue, FaqWhere}
StoreReminderInputs == {<<RemNow, "none">>}

NextStore ==
    \/ (Idle /\ \E g \in GroupIds : Start(g))
    \/ (Idle /\ \E g \in GroupIds : \E m \in StoreMessages : HandleMessage(g, m))
    \/ (Idle /\ \E g \in GroupIds : \E line \in StoreFaqLines : AddFaq(g, line))
    \/ (Idle /\ \E g \in GroupIds : \E in \in StoreReminderInputs :
                    SetReminder(g, in[1], in[2]))
    \/ Resume
    \/ ResumeSetReminder
    \/ Wake

\* a call of extract_question on the sentences of a document
ExtractQuestion ==
    /\ returned = NotCalled
    /\ returned' = extract_question(doc)
    /\ UNCHANGED <<knowledge, important_messages, reminders, group_context, tasks,
                   outbox, updates, clock, inflight, boots, doc>>

InitExtract ==
    /\ knowledge = <<>>
    /\ important_messages = <<>>
    /\ reminders = <<>>
    /\ group_context = [g \in GroupIds |-> <<>>]
    /\ tasks = {}
    /\ outbox = <<>>
    /\ updates = <<>>
    /\ clock = ClockStart
    /\ inflight = {}
    /\ boots = 1
    /\ doc \in Docs
    /\ returned = NotCalled

SpecExtract == InitExtract /\ [][ExtractQuestion]_vars

\* the bot after ContextCap - 1 messages in group 42, none of them important or
\* a question, so they left no row and no reply: "Update Bob sometimes" and
\* "ok" in turn, handled before ClockStart
BacklogLen == ContextCap - 1
BacklogMsg(i) == IF i % 2 = 1 THEN MsgUpdate ELSE MsgOk
Backlog ==
    [i \in 1..BacklogLen |->
        [chat |-> "42", cmd |-> "text", arg |-> BacklogMsg(i).text,
         at |-> ClockStart - 1, fault |-> "none"]]

InitContext ==
    /\ knowledge = <<>>
    /\ important_messages = <<>>
    /\ reminders = <<>>
    /\ group_context =
           [g \in GroupIds |->
               IF g = "42" THEN [i \in 1..BacklogLen |-> BacklogMsg(i).text] ELSE <<>>]
    /\ tasks = {}
    /\ outbox = <<>>
    /\ updates = Backlog
    /\ clock = ClockStart
    /\ inflight = {}
    /\ boots = 1
    /\ doc = <<>>
    /\ returned = NotCalled

ContextMessages == {MsgOk, MsgVenue, MsgFriday}
NextContext ==
    \/ (Idle /\ \E g \in GroupIds : \E m \in ContextMessages : HandleMessage(g, m))
    \/ Resume
SpecContext == InitContext /\ [][NextContext]_vars

\* messages handled concurrently: a handler may start while others are
\* suspended at their awaits (Application.builder() as called at line 217
\* handles updates one at a time, which allows fewer interleavings than this)
ConcurrentMessages == {MsgDeadline, MsgOk}
ConcurrentFaqLines == {FaqEcho}
NextConcurrent ==
    \/ \E g \in GroupIds : \E m \in ConcurrentMessages : Arrive(g, m)
    \/ \E g \in GroupIds : \E line \in ConcurrentFaqLines : AddFaq(g, line)
    \/ Resume
SpecConcurrent == Init /\ [][NextConcurrent]_vars

\* the reminder path with restarts: a reminder for the coming minute, with the
\* store working and with its insert failing, and one that is due at once
RestartReminderInputs == {<<RemSoon, "none">>, <<RemSoon, "execute">>, <<RemNow, "none">>}
NextRestart ==
    \/ /\ Len(updates) < MaxReminderCmds
       /\ Idle
       /\ \E g \in GroupIds : \E in \in RestartReminderInputs : SetReminder(g, in[1], in[2])
    \/ ResumeSetReminder
    \/ Tick
    \/ Wake
    \/ Restart
SpecRestart == Init /\ [][NextRestart]_vars

Spec == Init /\ [][Next]_vars
SpecStore == Init /\ [][NextStore]_vars
SpecFaq == Init /\ [][NextFaq]_vars
SpecReminder == Init /\ [][NextReminder]_vars
\* the reminder path under fair scheduling: a reminder for the coming minute,
\* with the store working and with its commit failing, one that is due at
\* once and one for a time that has passed
FairReminderInputs ==
    {<<RemSoon, "none">>, <<RemSoon, "commit">>, <<RemNow, "none">>, <<RemPast, "none">>}
NextReminderFair ==
    \/ /\ Len(updates) < MaxReminderCmds
       /\ Idle
       /\ \E g \in GroupIds : \E in \in FairReminderInputs : SetReminder(g, in[1], in[2])
    \/ ResumeSetReminder
    \/ Tick
    \/ Wake
\* the event loop resumes the suspended handler and runs every task whose
\* sleep is over, and time does not stop
SpecReminderFair ==
    /\ Init
    /\ [][NextReminderFair]_vars
    /\ WF_vars(Tick)
    /\ WF_vars(ResumeSetReminder)
    /\ \A g \in GroupIds : \A id \in 1..MaxReminderCmds :
           WF_vars(\E t \in tasks : t.chat = g /\ t.reply_to = id /\ ScheduleReminder(t))

(***************************************************************************)
(* Vocabulary of the properties.                                           *)
(***************************************************************************)
\* an update comes in this step, for the handler cmd
StepIs(cmd) ==
    /\ Len(updates') = Len(updates) + 1
    /\ updates'[Len(updates')].cmd = cmd
\* the update that comes in this step, and the replies the step sends
NewUpdate == updates'[Len(updates')]
NewReplies == SubSeq(outbox', Len(outbox) + 1, Len(outbox'))
\* the replies sent so far in answer to update id
RepliesTo(id) == SelectSeq(outbox, LAMBDA r : r.reply_to = id)

\* the handler of update id is suspended at an await
Suspended(id) == \E h \in inflight : h.id = id
\* where the handler of update id is: "start" before its first line, the line
\* of the await it is suspended at, "done" once it has returned
PcOf(id) ==
    IF Suspended(id) THEN (CHOOSE h \in inflight : h.id = id).pc
    ELSE IF id > Len(updates) THEN "start"
    ELSE "done"
\* the updates whose handler runs in this step
Acting == {id \in 1..Len(updates') : PcOf(id)' # PcOf(id)}
\* in this step the handler of message id runs lines 156 to 163: it extracts
\* the question and, when there is one, looks it up and sends its reply
LooksUp(id) ==
    /\ id \in 1..Len(updates')
    /\ updates'[id].cmd = "text"
    /\ boots' = boots
    /\ PcOf(id) \in {"start", "line154"}
    /\ PcOf(id)' \in {"line160", "line163", "done"}
\* in this step the handler of message id, resumed after the clarification
\* request, runs to its end
EndsAfterClarify(id) ==
    /\ id \in 1..Len(updates)
    /\ boots' = boots
    /\ PcOf(id) = "line163"
    /\ PcOf(id)' = "done"

\* two texts are equal up to letter case
EqualUpToCase(a, b) == PyLower(a) = PyLower(b)

\* the message with that text, and the question extract_question finds in it
MsgOf(text) == CHOOSE m \in Messages : m.text = text
AskedQuestion(u) == Question[MsgOf(u.arg)]

\* update u is registerFAQ(u.chat, RegisteredQuestion(u), RegisteredAnswer(u))
IsRegistration(u) == u.cmd = "addfaq" /\ Len(SplitBar(u.arg)) = 2
RegisteredQuestion(u) == Strip(SplitBar(u.arg)[1])
RegisteredAnswer(u) == Strip(SplitBar(u.arg)[2])

\* the row a miss leaves behind
PendingRow(g, question) ==
    [group_id |-> g, question |-> question, answer |-> PendingAnswer, frequency |-> 1]

\* some row of group g has a question equal to q up to letter case
HasRowFor(table, g, q) ==
    \E i \in 1..Len(table) :
        table[i].group_id = g /\ EqualUpToCase(table[i].question, q)

(***************************************************************************)
(* C1: after registerFAQ(group, question, answer), the next handleQuestion *)
(* in that group for a question equal to the registered one up to letter   *)
(* case is answered with exactly that answer, with no clarification        *)
(* request and no new row, whatever the answer and whatever the table      *)
(* already holds.                                                          *)
(***************************************************************************)
C1_RegisteredAnswerReturned ==
    [][\A id \in 2..Len(updates') :
          LET u == updates'[id]
              reg == updates'[id - 1]
          IN  (/\ IsRegistration(reg)
               /\ LooksUp(id)
               /\ u.chat = reg.chat
               /\ Truthy(AskedQuestion(u))
               /\ EqualUpToCase(AskedQuestion(u).str, RegisteredQuestion(reg)))
              => (/\ \E i \in 1..Len(NewReplies) :
                         NewReplies[i] = Reply(u.chat, id, "auto_answer",
                                               RegisteredAnswer(reg))
                  /\ \A i \in 1..Len(NewReplies) : NewReplies[i].kind # "clarify"
                  /\ PcOf(id)' # "line163"
                  /\ Len(knowledge') = Len(knowledge))]_vars

(***************************************************************************)
(* C2: every lookup hit raises the frequency of the row it fetched by      *)
(* exactly 1.                                                              *)
(***************************************************************************)
C2_HitIncrementsFrequency ==
    [][\A id \in 1..Len(updates') :
          LET u == updates'[id]
          IN  (/\ LooksUp(id)
               /\ Truthy(AskedQuestion(u))
               /\ FaqMatches(knowledge, u.chat, AskedQuestion(u).str) # {})
              => LET hits == FaqMatches(knowledge, u.chat, AskedQuestion(u).str)
                     first == CHOOSE i \in hits : \A j \in hits : i <= j
                 IN  knowledge'[first].frequency = knowledge[first].frequency + 1]_vars

(***************************************************************************)
(* C3: a question with no row of its group matching it up to letter case   *)
(* gets the clarification request and no answer, the lookup leaving the    *)
(* table as it was; when the handler goes on after that reply it appends   *)
(* one row, the pending row of that question with frequency 1, and every   *)
(* row there was is unchanged.                                             *)
(***************************************************************************)
C3_MissAddsPendingRow ==
    [][\A id \in 1..Len(updates') :
          LET u == updates'[id]
              q == AskedQuestion(u)
          IN  /\ (/\ LooksUp(id)
                  /\ Truthy(q)
                  /\ ~HasRowFor(knowledge, u.chat, q.str))
                 => (/\ \E i \in 1..Len(NewReplies) :
                            NewReplies[i] = Reply(u.chat, id, "clarify", q.str)
                     /\ \A i \in 1..Len(NewReplies) : NewReplies[i].kind # "auto_answer"
                     /\ knowledge' = knowledge
                     /\ PcOf(id)' = "line163")
              /\ EndsAfterClarify(id)
                 => (/\ knowledge' = Append(knowledge, PendingRow(u.chat, q.str))
                     /\ NewReplies = <<>>)]_vars

\* a question was just missed in a group whose table already held other rows
C3_Witness ==
    /\ Len(updates) >= 2
    /\ Len(knowledge) >= 2
    /\ LET u == updates[Len(updates)]
           before == SubSeq(knowledge, 1, Len(knowledge) - 1)
       IN  /\ u.cmd = "text"
           /\ PcOf(Len(updates)) = "done"
           /\ Truthy(AskedQuestion(u))
           /\ ~HasRowFor(before, u.chat, AskedQuestion(u).str)
           /\ \E i \in 1..Len(before) : before[i].group_id = u.chat
           /\ knowledge[Len(knowledge)] = PendingRow(u.chat, AskedQuestion(u).str)
           /\ outbox[Len(outbox)] =
                  Reply(u.chat, Len(updates), "clarify", AskedQuestion(u).str)

(***************************************************************************)
(* C4, as stated: in group "42", after /addfaq what is the venue |         *)
(* Building 5, the message "What is the venue?" is answered with           *)
(* "Building 5" and the registered row then has frequency 2.               *)
(***************************************************************************)
VenueRow(frequency) ==
    [group_id |-> "42", question |-> TxtVenueLower, answer |-> TxtBuilding5,
     frequency |-> frequency]

\* the last two updates are the registration and the question of the scenario,
\* and the handler of the question has returned
VenueScenario ==
    /\ Len(updates) >= 2
    /\ PcOf(Len(updates)) = "done"
    /\ updates[Len(updates) - 1].cmd = "addfaq"
    /\ updates[Len(updates) - 1].chat = "42"
    /\ updates[Len(updates) - 1].arg = FaqVenue
    /\ updates[Len(updates)].cmd = "text"
    /\ updates[Len(updates)].chat = "42"
    /\ updates[Len(updates)].arg = TxtVenueQ

C4_VenueAnswered ==
    VenueScenario =>
        /\ \E i \in 1..Len(outbox) :
               outbox[i] = Reply("42", Len(updates), "auto_answer", TxtBuilding5)
        /\ \E i \in 1..Len(knowledge) : knowledge[i] = VenueRow(2)

(***************************************************************************)
(* C4, amended: when no earlier row of group "42" matches "What is the     *)
(* venue?", the message is not answered: the extracted question keeps its  *)
(* question mark, the registered question has none, so the lookup misses;  *)
(* the only reply is the clarification request, the pending row is         *)
(* appended and the registered row keeps frequency 1.                      *)
(***************************************************************************)
C4_VenueQuestionMarkMisses ==
    (/\ VenueScenario
     /\ \A i \in 1..(Len(knowledge) - 1) :
            ~(knowledge[i].group_id = "42" /\ EqualUpToCase(knowledge[i].question, TxtVenueQ)))
    => (/\ AskedQuestion(updates[Len(updates)]) = Some(TxtVenueQ)
        /\ RepliesTo(Len(updates)) = <<Reply("42", Len(updates), "clarify", TxtVenueQ)>>
        /\ Len(knowledge) >= 2
        /\ knowledge[Len(knowledge)] = PendingRow("42", TxtVenueQ)
        /\ knowledge[Len(knowledge) - 1] = VenueRow(1))

\* the scenario has run and ended in the clarification request
C4_Witness ==
    /\ VenueScenario
    /\ Len(knowledge) >= 2
    /\ knowledge[Len(knowledge) - 1] = VenueRow(1)
    /\ knowledge[Len(knowledge)] = PendingRow("42", TxtVenueQ)
    /\ outbox[Len(outbox)] = Reply("42", Len(updates), "clarify", TxtVenueQ)

(***************************************************************************)
(* Vocabulary of the reminder properties.  Every update keeps its text,    *)
(* the clock at which it was handled and what the storage layer did, so a  *)
(* state tells of every request so far what it was and what became of it.  *)
(***************************************************************************)
IsReminderCmd(id) == updates[id].cmd = "setreminder"
\* for each command line of the model: its pieces, its content, its time parsed;
\* a request is well formed when its arguments split into exactly content | time
PiecesOf == [line \in ReminderLines |-> SplitBar(line)]
ContentOf == [line \in ReminderLines |-> Strip(PiecesOf[line][1])]
ParsedOf ==
    [line \in ReminderLines |->
        IF Len(PiecesOf[line]) = 2 THEN Strptime(Strip(PiecesOf[line][2])) ELSE ParseFailed]
WellFormed(id) == Len(PiecesOf[updates[id].arg]) = 2
ReminderContent(id) == ContentOf[updates[id].arg]
ParsedTime(id) == ParsedOf[updates[id].arg]

\* the rows of table reminders, and the sleeping tasks, that request id made
ReminderRows(id) == SelectSeq(reminders, LAMBDA r : r.message_id = id)
HasTask(id) == \E t \in tasks : t.reply_to = id
\* the notifications delivered for request id
Notifications(id) == SelectSeq(RepliesTo(id), LAMBDA r : r.kind = "reminder")
\* request id got the success acknowledgment
Acknowledged(id) ==
    \E i \in 1..Len(RepliesTo(id)) : RepliesTo(id)[i].kind = "reminder_set"
\* request id got the error reply kind, and nothing else, and left nothing behind
RejectedWith(id, kind) ==
    /\ RepliesTo(id) = <<Reply(updates[id].chat, id, kind, <<>>)>>
    /\ ReminderRows(id) = <<>>
    /\ ~HasTask(id)

(***************************************************************************)
(* C5: a request whose time string parses to a time strictly before the    *)
(* clock gets the past-time reply and nothing else, now or later: no row,  *)
(* no acknowledgment, no task, no notification.                            *)
(***************************************************************************)
C5_PastTimeRejected ==
    \A id \in 1..Len(updates) :
        (/\ IsReminderCmd(id) /\ WellFormed(id)
         /\ ParsedTime(id).ok /\ ParsedTime(id).ticks < updates[id].at)
        => RejectedWith(id, "past")

\* a request for a time half a minute back was rejected, and time has passed since
C5_Witness ==
    \E id \in 1..Len(updates) :
        /\ IsReminderCmd(id) /\ WellFormed(id)
        /\ ParsedTime(id).ok /\ ParsedTime(id).ticks = updates[id].at - 1
        /\ RejectedWith(id, "past")
        /\ clock > updates[id].at

(***************************************************************************)
(* C6: a request whose arguments do not split into content | time gets the *)
(* usage reply, one whose time string does not parse gets the format       *)
(* reply; neither leaves a row or a task.  Rejections do not wedge the     *)
(* service: a well-formed request for a time after the clock, with the     *)
(* store working, is acknowledged and stored whatever came before.         *)
(***************************************************************************)
C6_BadFormatRejected ==
    \A id \in 1..Len(updates) :
        IsReminderCmd(id) =>
            /\ ~WellFormed(id) => RejectedWith(id, "usage")
            /\ (WellFormed(id) /\ ~ParsedTime(id).ok) => RejectedWith(id, "format")
            /\ (/\ WellFormed(id) /\ ParsedTime(id).ok
                /\ ParsedTime(id).ticks > updates[id].at
                /\ updates[id].fault = "none")
               => (Acknowledged(id) /\ Len(ReminderRows(id)) = 1)

\* a request with an unparsable time was rejected and a later one accepted
C6_Witness ==
    \E i \in 1..Len(updates) : \E j \in 1..Len(updates) :
        /\ i < j
        /\ IsReminderCmd(i) /\ WellFormed(i) /\ ~ParsedTime(i).ok
        /\ RejectedWith(i, "format")
        /\ IsReminderCmd(j) /\ Acknowledged(j) /\ Len(ReminderRows(j)) = 1

(***************************************************************************)
(* C7, as stated (the part a finite run decides): every acknowledged       *)
(* request has its row in table reminders and at most one notification.    *)
(***************************************************************************)
C7_AcceptedIsPersisted ==
    \A id \in 1..Len(updates) :
        (IsReminderCmd(id) /\ Acknowledged(id))
        => (Len(ReminderRows(id)) = 1 /\ Len(Notifications(id)) <= 1)

(***************************************************************************)
(* C7, amended: every acknowledged request has its row in table reminders  *)
(* unless the insert or the commit failed (then it has none), never has    *)
(* more than one notification, each with its content and in its chat, and  *)
(* when time goes on and the event loop runs the tasks that are due, it    *)
(* eventually has exactly one.                                             *)
(***************************************************************************)
ReminderRow(id) ==
    [group_id |-> updates[id].chat, message_id |-> id,
     content |-> ReminderContent(id), remind_time |-> ParsedTime(id).ticks]

AcceptedSafe(id) ==
    /\ ReminderRows(id) = IF updates[id].fault = "none" THEN <<ReminderRow(id)>> ELSE <<>>
    /\ Len(Notifications(id)) <= 1
    /\ \A i \in 1..Len(Notifications(id)) :
           Notifications(id)[i] =
               Reply(updates[id].chat, id, "reminder", ReminderContent(id))

NotifiedOnce(id) == id <= Len(updates) /\ Len(Notifications(id)) = 1

C7_AcceptedNotifiedExactlyOnce ==
    /\ [](\A id \in 1..Len(updates) :
             (IsReminderCmd(id) /\ Acknowledged(id)) => AcceptedSafe(id))
    /\ \A id \in 1..MaxReminderCmds :
           (id <= Len(updates) /\ IsReminderCmd(id) /\ Acknowledged(id))
               ~> NotifiedOnce(id)

\* a request for a later time was acknowledged and stored, its time came and
\* its one notification is out
C7_Witness ==
    \E id \in 1..Len(updates) :
        /\ IsReminderCmd(id) /\ Acknowledged(id)
        /\ ParsedTime(id).ticks > updates[id].at
        /\ ReminderRows(id) = <<ReminderRow(id)>>
        /\ Notifications(id) =
               <<Reply(updates[id].chat, id, "reminder", ReminderContent(id))>>
        /\ ~HasTask(id)
        /\ clock >= ParsedTime(id).ticks

(***************************************************************************)
(* C8: a request whose parsed time is not strictly after the clock, the    *)
(* clock itself included, gets the past-time reply and leaves nothing      *)
(* behind.                                                                 *)
(***************************************************************************)
C8_NotFutureRejected ==
    \A id \in 1..Len(updates) :
        (/\ IsReminderCmd(id) /\ WellFormed(id)
         /\ ParsedTime(id).ok /\ ParsedTime(id).ticks <= updates[id].at)
        => RejectedWith(id, "past")

(***************************************************************************)
(* C9: whichever storage call fails while set_reminder handles a request   *)
(* (opening the store, the insert or the commit), once the handler has     *)
(* returned the request is acknowledged and its notification scheduled,    *)
(* and no row is stored.                                                   *)
(***************************************************************************)
C9_StorageFailureSwallowed ==
    \A id \in 1..Len(updates) :
        (IsReminderCmd(id) /\ updates[id].fault # "none" /\ PcOf(id) = "done")
        => /\ ReminderRows(id) = <<>>
           /\ RepliesTo(id) # <<>>
           /\ RepliesTo(id)[1].kind = "reminder_set"
           /\ (HasTask(id) \/ Len(Notifications(id)) = 1)

(***************************************************************************)
(* C10, as stated: a message is flagged important exactly when its text    *)
(* contains one of the keywords, in any letter case, or the recognizer     *)
(* finds a DATE, TIME or EVENT entity.                                     *)
(***************************************************************************)
Keywords ==
    {IMPORTANT_KEYWORDS[k][i] : k \in {1}, i \in 1..Len(KeywordPattern1)}
    \cup {IMPORTANT_KEYWORDS[k][i] : k \in {2}, i \in 1..Len(KeywordPattern2)}

\* kw occurs in text at position i, letter case ignored
OccursAt(text, i, kw) ==
    /\ i + Len(kw) - 1 <= Len(text)
    /\ \A k \in 1..Len(kw) : EqualUpToCase(<<text[i + k - 1]>>, <<kw[k]>>)

ContainsKeyword(text) ==
    \E kw \in Keywords : \E i \in 1..Len(text) : OccursAt(text, i, kw)

\* kw occurs as a whole word: no letter, digit or underscore touches it
ContainsKeywordAsWord(text) ==
    \E kw \in Keywords : \E i \in 1..Len(text) :
        /\ OccursAt(text, i, kw)
        /\ (i = 1 \/ ~IsWordChar(text[i - 1]))
        /\ (i + Len(kw) - 1 = Len(text) \/ ~IsWordChar(text[i + Len(kw)]))

HasTimeEntity(text) == MsgOf(text).ents \cap {"DATE", "TIME", "EVENT"} # {}

\* the three, for each message of the model
KeywordIn == [m \in Messages |-> ContainsKeyword(m.text)]
KeywordWordIn == [m \in Messages |-> ContainsKeywordAsWord(m.text)]
TimeEntityIn == [m \in Messages |-> HasTimeEntity(m.text)]

\* handle_message found update id important
Flagged(id) ==
    \E i \in 1..Len(RepliesTo(id)) :
        RepliesTo(id)[i] = Reply(updates[id].chat, id, "important", updates[id].arg)

C10_ImportantIffKeywordOrEntity ==
    \A id \in 1..Len(updates) :
        updates[id].cmd = "text" =>
            (Flagged(id) <=>
                (KeywordIn[MsgOf(updates[id].arg)] \/ TimeEntityIn[MsgOf(updates[id].arg)]))

(***************************************************************************)
(* C10, amended: a message is flagged important exactly when its text      *)
(* contains one of the keywords as a whole word, in any letter case, or    *)
(* the recognizer finds a DATE, TIME or EVENT entity.                      *)
(***************************************************************************)
C10_ImportantIffKeywordWordOrEntity ==
    \A id \in 1..Len(updates) :
        updates[id].cmd = "text" =>
            (Flagged(id) <=>
                (KeywordWordIn[MsgOf(updates[id].arg)]
                    \/ TimeEntityIn[MsgOf(updates[id].arg)]))

\* a message with a keyword in capitals was flagged, one with keywords only
\* inside longer words was not, one with a DATE entity and no keyword was
C10_Witness ==
    \E i \in 1..Len(updates) : \E j \in 1..Len(updates) : \E k \in 1..Len(updates) :
        /\ updates[i].cmd = "text" /\ updates[i].arg = TxtDeadline /\ Flagged(i)
        /\ updates[j].cmd = "text" /\ updates[j].arg = TxtUpdate /\ ~Flagged(j)
        /\ ContainsKeyword(TxtUpdate)
        /\ updates[k].cmd = "text" /\ updates[k].arg = TxtFriday /\ Flagged(k)
        /\ ~ContainsKeyword(TxtFriday)

(***************************************************************************)
(* C11: a step of a handler leaves every row of every group other than the *)
(* group of its update as it was, in all three tables, inserts no row      *)
(* under another group, and answers only with the answer of a row of its   *)
(* own group; a step in which no handler runs leaves the three tables      *)
(* alone.                                                                  *)
(***************************************************************************)
RowsOf(table, g) == SelectSeq(table, LAMBDA r : r.group_id = g)

C11_NoCrossGroupVisibility ==
    [][/\ \A other \in GroupIds :
              (\A id \in Acting : updates'[id].chat # other) =>
                  /\ RowsOf(knowledge', other) = RowsOf(knowledge, other)
                  /\ RowsOf(important_messages', other) = RowsOf(important_messages, other)
                  /\ RowsOf(reminders', other) = RowsOf(reminders, other)
       /\ \A k \in 1..Len(NewReplies) :
              NewReplies[k].kind = "auto_answer" =>
                  /\ NewReplies[k].reply_to \in Acting
                  /\ NewReplies[k].chat = updates'[NewReplies[k].reply_to].chat
                  /\ \E i \in 1..Len(knowledge) :
                         /\ knowledge[i].group_id = NewReplies[k].chat
                         /\ knowledge[i].answer = NewReplies[k].body
       /\ Acting = {} =>
            UNCHANGED <<knowledge, important_messages, reminders>>
      ]_vars

\* group 7 has an answer for the venue, and the same question asked afterwards
\* in group 42 was not answered with it: group 42 was asked to clarify and got
\* a pending row of its own, the row of group 7 being as it was registered
C11_Witness ==
    \E j \in 1..Len(updates) : \E id \in 1..Len(updates) :
        /\ j < id
        /\ updates[j] = [chat |-> "7", cmd |-> "addfaq", arg |-> FaqVenue,
                         at |-> updates[j].at, fault |-> "none"]
        /\ updates[id].chat = "42" /\ updates[id].cmd = "text"
        /\ updates[id].arg = TxtVenue
        /\ RepliesTo(id) = <<Reply("42", id, "clarify", TxtVenue)>>
        /\ RowsOf(knowledge, "7") =
               <<[group_id |-> "7", question |-> TxtVenueLower,
                  answer |-> TxtBuilding5, frequency |-> 1]>>
        /\ PendingRow("42", TxtVenue) \in {knowledge[i] : i \in 1..Len(knowledge)}

(***************************************************************************)
(* C12: extract_question returns the first sentence, in the order of the   *)
(* segmenter, that has a "?" in its text or a token whose lemma is what,    *)
(* how, when, where or why (its text without the blanks around it); it     *)
(* returns None exactly when no sentence qualifies, and never a later      *)
(* qualifying sentence when an earlier one qualifies.                      *)
(***************************************************************************)
HasQuestionMark(text) == \E k \in 1..Len(text) : text[k] = "?"
Qualifies(sent) ==
    HasQuestionMark(sent.text)
    \/ sent.lemmas \cap {"what", "how", "when", "where", "why"} # {}
Qualifying(sents) == {i \in 1..Len(sents) : Qualifies(sents[i])}

C12_FirstQualifyingSentence ==
    returned # NotCalled =>
        /\ (returned = None <=> Qualifying(doc) = {})
        /\ Qualifying(doc) # {} =>
               \E i \in Qualifying(doc) :
                   /\ \A j \in Qualifying(doc) : i <= j
                   /\ returned = Some(Strip(doc[i].text))

\* a statement, then two different questions: the call returned the first of the two
C12_Witness ==
    /\ returned # NotCalled
    /\ Len(doc) = 3
    /\ ~Qualifies(doc[1]) /\ Qualifies(doc[2]) /\ Qualifies(doc[3])
    /\ Strip(doc[2].text) # Strip(doc[3].text)
    /\ returned = Some(Strip(doc[2].text))

(***************************************************************************)
(* C13: the context of each group holds at most 100 entries and is the     *)
(* texts of the last (up to) 100 messages of that group whose handler has  *)
(* returned, in the order they came (a message whose handler is suspended  *)
(* is not in it yet); so the 101st message evicts the oldest entry and     *)
(* only it, and a message of one group leaves the contexts of the others   *)
(* as they were.                                                           *)
(***************************************************************************)
TextUpdatesOf(g) == SelectSeq(updates, LAMBDA u : u.cmd = "text" /\ u.chat = g)
TextsOf(g) == [i \in 1..Len(TextUpdatesOf(g)) |-> TextUpdatesOf(g)[i].arg]
LastOf(seq, n) == IF Len(seq) <= n THEN seq ELSE SubSeq(seq, Len(seq) - n + 1, Len(seq))
\* the texts of the messages of group g whose handler has returned: updates
\* are handled one at a time, so a suspended handler is that of the last one
ReturnedTextsOf(g) ==
    IF \E h \in inflight : h.chat = g
    THEN SubSeq(TextsOf(g), 1, Len(TextsOf(g)) - 1)
    ELSE TextsOf(g)

C13_ContextIsLastHundred ==
    \A g \in GroupIds :
        /\ Len(group_context[g]) <= 100
        /\ group_context[g] = LastOf(ReturnedTextsOf(g), 100)

\* group 42 has had 101 messages: its context holds 100, the first message is
\* gone, the second is now the oldest and the 101st the newest
C13_Witness ==
    /\ inflight = {}
    /\ Len(TextsOf("42")) = 101
    /\ Len(group_context["42"]) = 100
    /\ TextsOf("42")[1] # TextsOf("42")[2]
    /\ group_context["42"][1] = TextsOf("42")[2]
    /\ group_context["42"][100] = TextsOf("42")[101]
    /\ group_context["7"] = TextsOf("7")

(***************************************************************************)
(* C14: handling a message appends exactly one row (group_id, message_id,  *)
(* content) to important_messages when the classifier returns true, also   *)
(* when the group already has a row with that content, and none when it    *)
(* returns false; no other step changes the table, so no row is ever       *)
(* modified or deleted.                                                    *)
(***************************************************************************)
C14_OneRowPerImportantMessage ==
    [][IF StepIs("text")
       THEN IF Relevance[MsgOf(NewUpdate.arg)]
            THEN important_messages' =
                     Append(important_messages,
                            [group_id |-> NewUpdate.chat, message_id |-> Len(updates'),
                             content |-> NewUpdate.arg])
            ELSE important_messages' = important_messages
       ELSE important_messages' = important_messages
      ]_vars

\* the same text was handled twice in a group and has two rows, with the two
\* message ids; a message that is not important was handled and has none
C14_Witness ==
    /\ \E i \in 1..Len(important_messages) : \E j \in 1..Len(important_messages) :
           /\ i < j
           /\ important_messages[i].group_id = important_messages[j].group_id
           /\ important_messages[i].content = important_messages[j].content
           /\ important_messages[i].message_id < important_messages[j].message_id
    /\ \E id \in 1..Len(updates) :
           /\ updates[id].cmd = "text" /\ ~Relevance[MsgOf(updates[id].arg)]
           /\ \A i \in 1..Len(important_messages) : important_messages[i].message_id # id

(***************************************************************************)
(* Vocabulary of C15.  A hit sets the frequency of the rows whose question *)
(* is the answer returned (see C2), so the hits on a row raise its own     *)
(* frequency only when its question is its own answer.  Row i is such a    *)
(* row, the first of its group to match its question and the only row of   *)
(* its group with that answer: every hit on its question reads it and      *)
(* writes it, and nothing else writes it.                                  *)
(***************************************************************************)
SelfAnswering(i) ==
    /\ knowledge[i].question = knowledge[i].answer
    /\ \A j \in 1..Len(knowledge) :
           (j # i /\ knowledge[j].group_id = knowledge[i].group_id)
           => /\ j < i => ~EqualUpToCase(knowledge[j].question, knowledge[i].question)
              /\ knowledge[j].answer # knowledge[i].question

\* update id is a message of the group of row i asking the question of row i
AsksFor(id, i) ==
    /\ updates[id].cmd = "text"
    /\ updates[id].chat = knowledge[i].group_id
    /\ ~AskedQuestion(updates[id]).is_none
    /\ EqualUpToCase(AskedQuestion(updates[id]).str, knowledge[i].question)

\* the hits on row i answered so far
HitsOn(i) ==
    {k \in 1..Len(outbox) :
        outbox[k].kind = "auto_answer" /\ AsksFor(outbox[k].reply_to, i)}

\* two coroutines are suspended at line 160 at the same time, each having
\* looked up the question of row i and sent its answer
TwoConcurrentHits(i) ==
    \E h1 \in inflight : \E h2 \in inflight :
        /\ h1.id # h2.id
        /\ h1.pc = "line160" /\ h2.pc = "line160"
        /\ AsksFor(h1.id, i) /\ AsksFor(h2.id, i)

(***************************************************************************)
(* C15, as stated: when two hits on the same row are handled concurrently, *)
(* one increment is lost: the row registered with frequency 1 is at 2      *)
(* after the two hits instead of 3.                                        *)
(***************************************************************************)
C15_ConcurrentHitsLoseIncrement ==
    \A i \in 1..Len(knowledge) :
        (SelfAnswering(i) /\ TwoConcurrentHits(i) /\ Cardinality(HitsOn(i)) = 2)
        => knowledge[i].frequency = 2

(***************************************************************************)
(* C15, amended: the read and the write of the frequency in get_faq_answer *)
(* are not separated by any suspension, so hits handled concurrently never *)
(* interleave between them and no increment is lost through interleaving:  *)
(* a row that its hits increment has frequency 1 plus the number of hits   *)
(* answered from it, however the handlers overlap.                         *)
(***************************************************************************)
C15_NoIncrementLost ==
    \A i \in 1..Len(knowledge) :
        SelfAnswering(i) => knowledge[i].frequency = 1 + Cardinality(HitsOn(i))

\* two hits on the same row were handled concurrently and both count
C15_Witness ==
    \E i \in 1..Len(knowledge) :
        /\ SelfAnswering(i) /\ TwoConcurrentHits(i)
        /\ Cardinality(HitsOn(i)) = 2
        /\ knowledge[i].frequency = 3

(***************************************************************************)
(* C16: a restart leaves table reminders as it is and schedules nothing;   *)
(* the requests that were waiting at the restart, and the one acknowledged *)
(* whose task was yet to be made, have no task afterwards; and a request   *)
(* that was acknowledged, whose handler has returned and which has neither *)
(* a task nor a notification stays so for ever, whatever happens next: its *)
(* notification is never delivered.                                        *)
(***************************************************************************)
Dropped(id) ==
    /\ IsReminderCmd(id) /\ Acknowledged(id)
    /\ PcOf(id) = "done"
    /\ ~HasTask(id)
    /\ Notifications(id) = <<>>

C16_RestartDropsWaitingReminders ==
    [][/\ boots' # boots =>
            /\ reminders' = reminders
            /\ tasks' = {}
            /\ outbox' = outbox
            /\ \A id \in 1..Len(updates) :
                   (HasTask(id) \/ PcOf(id) = "line198") => Dropped(id)'
       /\ \A id \in 1..Len(updates) : Dropped(id) => Dropped(id)'
      ]_vars

\* a request was acknowledged and stored, the process restarted while it was
\* waiting, its time has come, and the row is there with no notification
C16_Witness ==
    \E id \in 1..Len(updates) :
        /\ boots > 1
        /\ Dropped(id)
        /\ ReminderRows(id) = <<ReminderRow(id)>>
        /\ ParsedTime(id).ticks > updates[id].at
        /\ clock >= ParsedTime(id).ticks

(***************************************************************************)
(* C17: registerFAQ appends exactly one row, with the question and answer  *)
(* given and frequency 1, and leaves every other row as it is, also when   *)
(* the group already has a row for that question; no step of any handler   *)
(* removes a row or changes the group, question or answer of one, and no   *)
(* frequency is ever below 1.                                              *)
(***************************************************************************)
C17_KnowledgeAppendOnly ==
    [][/\ Len(knowledge') >= Len(knowledge)
       /\ \A i \in 1..Len(knowledge) :
              /\ knowledge'[i].group_id = knowledge[i].group_id
              /\ knowledge'[i].question = knowledge[i].question
              /\ knowledge'[i].answer = knowledge[i].answer
       /\ \A i \in 1..Len(knowledge') : knowledge'[i].frequency >= 1
       /\ (StepIs("addfaq") /\ IsRegistration(NewUpdate)) =>
              knowledge' =
                  Append(knowledge,
                         [group_id |-> NewUpdate.chat,
                          question |-> RegisteredQuestion(NewUpdate),
                          answer |-> RegisteredAnswer(NewUpdate), frequency |-> 1])
      ]_vars

\* the same question was registered twice in a group and has two rows
C17_Witness ==
    \E i \in 1..Len(knowledge) : \E j \in 1..Len(knowledge) :
        /\ i < j
        /\ knowledge[i] = knowledge[j]
        /\ knowledge[i].answer = TxtBuilding5
        /\ knowledge[i].frequency = 1
        /\ \E a \in 1..Len(updates) : \E b \in 1..Len(updates) :
               /\ a < b
               /\ IsRegistration(updates[a]) /\ IsRegistration(updates[b])
               /\ updates[a].chat = knowledge[i].group_id
               /\ updates[b].chat = knowledge[i].group_id
               /\ updates[a].arg = updates[b].arg

(***************************************************************************)
(* C18: a message answered from the table (a lookup hit) leaves the table  *)
(* as it was except for frequencies: no row is added, only rows of the     *)
(* group whose question is the one looked up, letter case aside, have      *)
(* their frequency changed, and no frequency goes down.                    *)
(***************************************************************************)
IsHitStep(id) ==
    \E k \in 1..Len(NewReplies) :
        NewReplies[k].kind = "auto_answer" /\ NewReplies[k].reply_to = id

C18_HitChangesOnlyMatchedFrequency ==
    [][\A id \in 1..Len(updates') :
          IsHitStep(id) =>
              /\ Len(knowledge') = Len(knowledge)
              /\ \A i \in 1..Len(knowledge) :
                     /\ knowledge'[i] =
                            [knowledge[i] EXCEPT !.frequency = knowledge'[i].frequency]
                     /\ knowledge'[i].frequency >= knowledge[i].frequency
                     /\ knowledge'[i].frequency # knowledge[i].frequency =>
                            /\ knowledge[i].group_id = updates'[id].chat
                            /\ EqualUpToCase(knowledge[i].question,
                                             AskedQuestion(updates'[id]).str)
      ]_vars

(***************************************************************************)
(* C19: when a question was asked in a group with no row for it (which     *)
(* left a pending row), an admin then registered an answer for it in that  *)
(* group, and the question is asked again for the first time since, the    *)
(* reply is the auto-answer with the admin's answer, and no reply carries   *)
(* the placeholder "Pending admin response".  Stated for the questions and *)
(* answers C1 has no quarrel with: ASCII letters only, the answer not      *)
(* empty.                                                                  *)
(***************************************************************************)
IsPlain(text) == \A n \in 1..Len(text) : text[n] \notin {UpperEacute, LowerEacute}

\* update id asked question q in group g
Asked(id, g, q) ==
    /\ updates[id].cmd = "text" /\ updates[id].chat = g
    /\ ~AskedQuestion(updates[id]).is_none
    /\ EqualUpToCase(AskedQuestion(updates[id]).str, q)

\* update j asked q in group g and missed, update k registered an answer for
\* q in group g afterwards, and q has not been asked in g since, before id
AnsweredAfterPending(j, k, id, g, q) ==
    /\ j < k /\ k < id
    /\ Asked(j, g, q)
    /\ \E n \in 1..Len(RepliesTo(j)) : RepliesTo(j)[n].kind = "clarify"
    /\ IsRegistration(updates[k]) /\ updates[k].chat = g
    /\ EqualUpToCase(RegisteredQuestion(updates[k]), q)
    /\ IsPlain(q) /\ RegisteredAnswer(updates[k]) # <<>>
    /\ \A n \in (k + 1)..(id - 1) : ~Asked(n, g, q)

C19_AdminAnswerReplacesPending ==
    [][\A id \in 1..Len(updates') :
          LET u == updates'[id]
          IN  (LooksUp(id) /\ ~AskedQuestion(u).is_none) =>
                  \A j \in 1..(id - 1) : \A k \in 1..(id - 1) :
                      AnsweredAfterPending(j, k, id, u.chat, AskedQuestion(u).str)
                      => /\ \E n \in 1..Len(NewReplies) :
                                NewReplies[n] = Reply(u.chat, id, "auto_answer",
                                                      RegisteredAnswer(updates[k]))
                         /\ \A n \in 1..Len(NewReplies) : NewReplies[n].body # PendingAnswer
      ]_vars

(***************************************************************************)
(* C20: a notification is delivered only in a step of its own, for a       *)
(* request that passed the checks of set_reminder (two arguments, a time   *)
(* that parses and is not before the clock at the request), after the      *)
(* attempt to store it (the row is there, or the insert or the commit      *)
(* failed), after its acknowledgment and after set_reminder has returned,  *)
(* and with the clock at or past the time asked for.                       *)
(***************************************************************************)
PassedChecks(id) ==
    /\ IsReminderCmd(id) /\ WellFormed(id)
    /\ ParsedTime(id).ok
    /\ ~(ParsedTime(id).ticks < updates[id].at)

StoreAttempted(id) ==
    \/ ReminderRows(id) = <<ReminderRow(id)>>
    \/ updates[id].fault \in {"execute", "commit"} /\ ReminderRows(id) = <<>>

C20_NotificationInOrder ==
    [][\A k \in 1..Len(NewReplies) :
          NewReplies[k].kind = "reminder" =>
              LET id == NewReplies[k].reply_to
              IN  /\ updates' = updates
                  /\ id \in 1..Len(updates)
                  /\ NewReplies[k].chat = updates[id].chat
                  /\ PassedChecks(id)
                  /\ StoreAttempted(id)
                  /\ Acknowledged(id)
                  /\ PcOf(id) = "done"
                  /\ clock >= ParsedTime(id).ticks
      ]_vars

\* a request for the coming minute whose insert failed: the acknowledgment
\* came first, the notification after it, once the clock was there
C20_Witness ==
    \E id \in 1..Len(updates) : \E a \in 1..Len(outbox) : \E b \in 1..Len(outbox) :
        /\ PassedChecks(id)
        /\ updates[id].fault = "execute" /\ ReminderRows(id) = <<>>
        /\ ParsedTime(id).ticks > updates[id].at
        /\ a < b
        /\ outbox[a].reply_to = id /\ outbox[a].kind = "reminder_set"
        /\ outbox[b] = Reply(updates[id].chat, id, "reminder", ReminderContent(id))
        /\ clock >= ParsedTime(id).ticks

====
